---- MODULE Spec2Model ----
(***************************************************************************)
(* Model of the lang-learner data validation pipeline:                     *)
(*   - data_tools/scripts/check_df_translation.py  (verify: main,          *)
(*     analyse_errors)                                                     *)
(*   - data_tools/data_utils/translation.py        (checkers)              *)
(*   - data_tools/data_utils/data_schema.py        (schema validation)     *)
(*   - data_tools/scripts/convert_lang_csv_to_df.py (ingest, reconciler)   *)
(*                                                                         *)
(* Python's None is the empty tuple and a present value v is <<v>>, so an  *)
(* Optional[bool] and an Optional[str] keep "absent" apart from False/''.  *)
(***************************************************************************)
EXTENDS Integers, Sequences, FiniteSets, TLC

VARIABLES
    language_df,         \* verify: the record set loaded from the feather file
    word_limit,          \* verify: main's word_limit argument (None or an int)
    translation_checker, \* verify: class of the checker the factory returned
    validation_results,  \* verify: list of result dicts appended by the loop
    calls,               \* verify: what the translator / lexicon answered per record
    dfv,                 \* verify: the report dataframe built after the loop
    report_file,         \* verify: content of output_filepath (None = no file)
    printed,             \* verify: the "Processed n items, k need review" line
    vpc,                 \* verify: position in main()
    files,               \* ingest: file name -> content (None = no such file)
    now,                 \* ingest: the clock, in ticks
    run,                 \* ingest: locals of the run in progress (or last run)
    files0,              \* ingest: the files as they were when the run started
    out_file,            \* ingest: content of lang_feather_filepath (None = no file)
    ipc,                 \* ingest: position in convert_lang_csv_to_df.main()
    stored,              \* schema: the table handed to the validator
    schema_raised        \* schema: what the validator raised for it

vvars == <<language_df, word_limit, translation_checker, validation_results,
           calls, dfv, report_file, printed, vpc>>

ivars == <<files, now, run, files0, out_file, ipc>>

svars == <<stored, schema_raised>>

vars == <<vvars, ivars, svars>>

----------------------------------------------------------------------------
(* Bounds *)

MaxRecords == 2

(* Optional values *)

None == <<>>

Some(x) == <<x>>

\* Python truthiness of an Optional[str]: None and '' are falsy
Truthy(o) == o # None /\ o[1] # ""

----------------------------------------------------------------------------
(* Record sets the ingest stage persists: sorted by source_phrase_no_diacritic,
   no duplicate records.  RecordPool is listed in that order. *)

RecordPool ==
    << [source_phrase |-> "à", target_phrase |-> "to, at, in # ignore translation error",
        is_source_noun |-> FALSE, source_noun |-> None, source_noun_gender |-> None,
        target_phrase_short |-> "to, at, in", is_ignore_translation_error |-> TRUE,
        source_phrase_no_diacritic |-> "a"],
       [source_phrase |-> "acheter", target_phrase |-> "to buy",
        is_source_noun |-> FALSE, source_noun |-> None, source_noun_gender |-> None,
        target_phrase_short |-> "to buy", is_ignore_translation_error |-> FALSE,
        source_phrase_no_diacritic |-> "acheter"],
       [source_phrase |-> "chat (m)", target_phrase |-> "cat",
        is_source_noun |-> TRUE, source_noun |-> Some("chat"), source_noun_gender |-> Some("m"),
        target_phrase_short |-> "cat", is_ignore_translation_error |-> FALSE,
        source_phrase_no_diacritic |-> "chat (m)"],
       [source_phrase |-> "chat (m)", target_phrase |-> "cat # ignore translation error",
        is_source_noun |-> TRUE, source_noun |-> Some("chat"), source_noun_gender |-> Some("m"),
        target_phrase_short |-> "cat", is_ignore_translation_error |-> TRUE,
        source_phrase_no_diacritic |-> "chat (m)"],
       [source_phrase |-> "maison (f)", target_phrase |-> "house",
        is_source_noun |-> TRUE, source_noun |-> Some("maison"), source_noun_gender |-> Some("f"),
        target_phrase_short |-> "house", is_ignore_translation_error |-> FALSE,
        source_phrase_no_diacritic |-> "maison (f)"] >>

\* the declared language pair of a corpus (header line), constant across its records
LanguagePairs ==
    { <<"French", "English">>, <<"FRENCH", "english">>, <<"Spanish", "English">> }

\* strictly increasing index lists into RecordPool of length 1..MaxRecords
RECURSIVE IncreasingFrom(_, _)
IncreasingFrom(lo, n) ==
    IF n = 0 THEN { <<>> }
    ELSE UNION { { <<i>> \o t : t \in IncreasingFrom(i + 1, n - 1) } : i \in lo..Len(RecordPool) }

WithLanguages(r, pair) ==
    [source_phrase |-> r.source_phrase, target_phrase |-> r.target_phrase,
     source_language |-> pair[1], target_language |-> pair[2],
     is_source_noun |-> r.is_source_noun, source_noun |-> r.source_noun,
     source_noun_gender |-> r.source_noun_gender,
     target_phrase_short |-> r.target_phrase_short,
     is_ignore_translation_error |-> r.is_ignore_translation_error,
     source_phrase_no_diacritic |-> r.source_phrase_no_diacritic]

RecordSets ==
    { [k \in 1..Len(ix) |-> WithLanguages(RecordPool[ix[k]], pair)] :
        ix \in UNION { IncreasingFrom(1, n) : n \in 1..MaxRecords },
        pair \in LanguagePairs }

----------------------------------------------------------------------------
(* translation.py *)

\* str.lower() on the language names of LanguagePairs
Lower(s) ==
    CASE s \in {"French", "FRENCH", "french"} -> "french"
      [] s \in {"English", "ENGLISH", "english"} -> "english"
      [] s \in {"Spanish", "spanish"} -> "spanish"
      [] OTHER -> s

get_checker(source_language, target_language) ==
    IF Lower(source_language) = "french" /\ Lower(target_language) = "english"
    THEN "FrenchEnglishChecker"
    ELSE "GenericTranslationChecker"

\* What the translator call does for one text: it raises with a message, or
\* returns a text that the fuzzy matcher scores against the provided target.
TranslatorErrors == { "", "Request exception can happen due to an api connection error" }

TranslatorOutcomes(ratios) ==
    { [raises |-> Some(m), text |-> None, ratio |-> None] : m \in TranslatorErrors }
    \cup { [raises |-> None, text |-> Some("translated"), ratio |-> Some(q)] : q \in ratios }

check_translation(outcome) ==
    IF outcome.raises = None
    THEN [translation |-> outcome.text,
          fuzzy_ratio |-> outcome.ratio,
          translation_error |-> None]
    ELSE [translation |-> None,
          fuzzy_ratio |-> None,
          translation_error |-> outcome.raises]

\* What Lexique383 holds for a word form: None (word not in lexique) or the
\* list of (cgram, genre) pairs of its entries.
LexiconOutcomes ==
    { None,
      Some(<< <<"NOM", "m">> >>),
      Some(<< <<"NOM", "f">> >>),
      Some(<< <<"VER", "">>, <<"NOM", "">> >>),
      Some(<< <<"ADJ", "m">>, <<"NOM", "f">> >>),
      Some(<< <<"VER", "">>, <<"ADJ", "m">>, <<"NOM", "">> >>) }

unique_genders(pairs) ==
    { pairs[i][2] : i \in { j \in 1..Len(pairs) : pairs[j][2] # "" } }

get_pylexique_gender_from_cgram_genre_pair_list(cgram_genre_pairs) ==
    IF cgram_genre_pairs = None THEN None
    ELSE LET ug == unique_genders(cgram_genre_pairs[1])
         IN IF Cardinality(ug) = 1 THEN Some(CHOOSE g \in ug : TRUE) ELSE None

\* variant: the generic checker reports no gender error
GenericValidateGenderNoError ==
    [is_gender_match |-> None,
     lexical_gender |-> None,
     gender_error |-> None]

GenericValidateGender ==
    [is_gender_match |-> None,
     lexical_gender |-> None,
     gender_error |-> Some("Gender validation not implemented for this language pair.")]

FrenchValidateGender(cgram_genre_pair_list, provided_gender) ==
    IF cgram_genre_pair_list = None \/ cgram_genre_pair_list[1] = <<>>
    THEN [is_gender_match |-> None,
          lexical_gender |-> None,
          gender_error |-> Some("noun not in lexical database, check for diacritics")]
    ELSE LET lexique_gender ==
                 get_pylexique_gender_from_cgram_genre_pair_list(cgram_genre_pair_list)
         IN IF ~Truthy(lexique_gender)
            THEN [is_gender_match |-> None,
                  lexical_gender |-> lexique_gender,
                  gender_error |-> Some("'gender could not be determined)")]
            ELSE IF lexique_gender = provided_gender
            THEN [is_gender_match |-> Some(TRUE),
                  lexical_gender |-> lexique_gender,
                  gender_error |-> None]
            ELSE [is_gender_match |-> Some(FALSE),
                  lexical_gender |-> lexique_gender,
                  gender_error |-> Some("gender mismatch")]

validate_gender(checker, lexicon, provided_gender) ==
    IF checker = "FrenchEnglishChecker"
    THEN FrenchValidateGender(lexicon, provided_gender)
    ELSE GenericValidateGender

----------------------------------------------------------------------------
(* data_schema.py *)

LanguageDataSchema ==
    [source_phrase |-> "str", target_phrase |-> "str",
     source_language |-> "str", target_language |-> "str",
     is_source_noun |-> "Optional[bool]", source_noun |-> "str",
     source_noun_gender |-> "Optional[Literal['m', 'f']]",
     target_phrase_short |-> "str", is_ignore_translation_error |-> "bool",
     source_phrase_no_diacritic |-> "str"]

ValidationReportDataSchema ==
    LanguageDataSchema @@
    [translation |-> "str", fuzzy_ratio |-> "int",
     lexical_gender |-> "Optional[Literal['m', 'f']]", is_gender_match |-> "bool",
     is_needs_review |-> "bool", review_reason |-> "str", review_detail |-> "str",
     is_ok_to_display |-> "bool"]

\* the dtype name the validator expects for a schema annotation
expected_dtype_name_check(expected_type) ==
    CASE expected_type \in {"str", "Optional[str]", "Literal['m', 'f']",
                            "Optional[Literal['m', 'f']]"} -> "object"
      [] expected_type \in {"bool", "Optional[bool]"} -> "bool"
      [] expected_type = "int" -> "int64"
      [] expected_type = "float" -> "float64"
      [] OTHER -> "object"

\* columns that hold plain Python/numpy booleans in every row
PlainBoolColumns ==
    {"is_source_noun", "is_ignore_translation_error", "is_needs_review", "is_ok_to_display"}

\* the dtype pandas infers for a column of a dataframe built from row dicts:
\* ints only -> int64, ints mixed with None -> float64 (None becomes NaN),
\* bools only -> bool, anything holding None or str -> object
actual_dtype_name(df, col_name) ==
    LET values == [k \in 1..Len(df) |-> df[k][col_name]]
    IN CASE col_name = "fuzzy_ratio" ->
                IF \A k \in 1..Len(df) : values[k] # None THEN "int64"
                ELSE IF \A k \in 1..Len(df) : values[k] = None THEN "object"
                ELSE "float64"
         [] col_name \in PlainBoolColumns -> "bool"
         [] col_name = "is_gender_match" ->
                IF \A k \in 1..Len(df) : values[k] # None THEN "bool" ELSE "object"
         [] OTHER -> "object"

\* None when the dataframe conforms, else the exception raised
validate_dataframe_schema(df, expected_schema) ==
    IF DOMAIN df[1] # DOMAIN expected_schema
    THEN Some("ValueError")
    ELSE IF \E c \in DOMAIN expected_schema :
                actual_dtype_name(df, c) # expected_dtype_name_check(expected_schema[c])
    THEN Some("TypeError")
    ELSE None

validate_language_dataframe_schema(df) ==
    validate_dataframe_schema(df, LanguageDataSchema)

validate_report_dataframe_schema(df) ==
    validate_dataframe_schema(df, ValidationReportDataSchema)

\* expected_schema.__annotations__ in declaration order
annotations(expected_schema) ==
    LET language == <<"source_phrase", "target_phrase", "source_language",
                      "target_language", "is_source_noun", "source_noun",
                      "source_noun_gender", "target_phrase_short",
                      "is_ignore_translation_error", "source_phrase_no_diacritic">>
    IN IF DOMAIN expected_schema = DOMAIN LanguageDataSchema
       THEN language
       ELSE language \o <<"translation", "fuzzy_ratio", "lexical_gender",
                          "is_gender_match", "is_needs_review", "review_reason",
                          "review_detail", "is_ok_to_display">>

\* cell values, written as Python literals
BoolValues == {"True", "False"}
IntValues == {"3"}
StrValues == {"'m'", "'a'"}
NoneValue == "None"

\* str(df[col_name].dtype) of a column given by its cell values: bools only
\* -> bool, ints only -> int64, ints mixed with None -> float64 (None becomes
\* NaN), anything else -> object
dtype_name(values) ==
    LET cells == { values[k] : k \in 1..Len(values) }
    IN IF cells \subseteq BoolValues THEN "bool"
       ELSE IF cells \subseteq IntValues THEN "int64"
       ELSE IF cells \subseteq (IntValues \cup {NoneValue}) /\ cells # {NoneValue}
            THEN "float64"
       ELSE "object"

\* lines 80-112 on a table given by its column list and cell values: None, or
\* the exception with what its message names (the sorted column lists are
\* given as sets; the first offending column in annotation order)
validate_table_schema(table, expected_schema) ==
    LET order == annotations(expected_schema)
        present == { table.columns[k] : k \in 1..Len(table.columns) }
    IN IF present # DOMAIN expected_schema
       THEN Some(<<"ValueError", DOMAIN expected_schema, present>>)
       ELSE LET bad == { k \in 1..Len(order) :
                           dtype_name(table.cells[order[k]])
                             # expected_dtype_name_check(expected_schema[order[k]]) }
            IN IF bad = {} THEN None
               ELSE LET k == CHOOSE i \in bad : \A j \in bad : i <= j
                    IN Some(<<"TypeError", order[k],
                              expected_dtype_name_check(expected_schema[order[k]]),
                              dtype_name(table.cells[order[k]])>>)

----------------------------------------------------------------------------
(* check_df_translation.py *)

FUZZY_RATIO_THRESHOLD == 85

\* '; '.join(list): the joined string as its pieces, separator pieces included
RECURSIVE Join(_, _)
Join(items, sep) ==
    IF Len(items) = 0 THEN <<>>
    ELSE IF Len(items) = 1 THEN <<items[1]>>
    ELSE <<items[1], sep>> \o Join(Tail(items), sep)

ReasonSep == "; "

DetailSep == <<"; ">>

\* variant: the comparison written <= instead of <
is_translation_mismatch_inclusive(translation_error, fuzzy_ratio) ==
    ~Truthy(translation_error) /\ fuzzy_ratio[1] <= FUZZY_RATIO_THRESHOLD

\* line 69: translation mismatch, fuzzy ratio below threshold
is_translation_mismatch(translation_error, fuzzy_ratio) ==
    ~Truthy(translation_error) /\ fuzzy_ratio[1] < FUZZY_RATIO_THRESHOLD

\* lines 82-83: noun not found
is_noun_not_found(is_source_noun, gender_error, is_gender_match, lexical_gender) ==
    is_source_noun /\ Truthy(gender_error)
        /\ is_gender_match = None /\ lexical_gender = None

\* lines 89-90: gender not found
is_gender_not_found(is_source_noun, gender_error, is_gender_match, lexical_gender) ==
    is_source_noun /\ Truthy(gender_error)
        /\ is_gender_match = None /\ Truthy(lexical_gender)

\* variant: the test `is_gender_match is False` left out
is_gender_mismatch_any_error(is_source_noun, gender_error, is_gender_match) ==
    is_source_noun /\ Truthy(gender_error)

\* lines 96-97: gender mismatch
is_gender_mismatch(is_source_noun, gender_error, is_gender_match) ==
    is_source_noun /\ Truthy(gender_error) /\ is_gender_match = Some(FALSE)

\* variant: the gender mismatch block placed first
append_gm_first(tm, te, nnf, gnf, gm, items) ==
       (IF gm  THEN <<items[5]>> ELSE <<>>)
    \o (IF tm  THEN <<items[1]>> ELSE <<>>)
    \o (IF te  THEN <<items[2]>> ELSE <<>>)
    \o (IF nnf THEN <<items[3]>> ELSE <<>>)
    \o (IF gnf THEN <<items[4]>> ELSE <<>>)

\* lines 69-101: the five ifs in program order, each appending its item
append_in_order(tm, te, nnf, gnf, gm, items) ==
       (IF tm  THEN <<items[1]>> ELSE <<>>)
    \o (IF te  THEN <<items[2]>> ELSE <<>>)
    \o (IF nnf THEN <<items[3]>> ELSE <<>>)
    \o (IF gnf THEN <<items[4]>> ELSE <<>>)
    \o (IF gm  THEN <<items[5]>> ELSE <<>>)

\* analyse_errors: the returned dict, or the exception the comparison
\* None < FUZZY_RATIO_THRESHOLD raises (raises # None)
analyse_errors(translation_error, fuzzy_ratio, is_source_noun, gender_error, is_gender_match, lexical_gender) ==
    IF ~Truthy(translation_error) /\ fuzzy_ratio = None
    THEN [raises |-> Some("TypeError"), is_needs_review |-> FALSE,
          review_reason |-> <<>>, review_detail |-> <<>>]
    ELSE
    LET tm  == is_translation_mismatch(translation_error, fuzzy_ratio)
        te  == Truthy(translation_error)
        nnf == is_noun_not_found(is_source_noun, gender_error,
                                 is_gender_match, lexical_gender)
        gnf == is_gender_not_found(is_source_noun, gender_error,
                                   is_gender_match, lexical_gender)
        gm  == is_gender_mismatch(is_source_noun, gender_error, is_gender_match)
        review_reason ==
            append_in_order(tm, te, nnf, gnf, gm, <<"TM", "TE", "NNF", "GNF", "GM">>)
        review_detail ==
            append_in_order(tm, te, nnf, gnf, gm,
                << <<"TM", "Translation Mismatch (fuzzy ratio < threshold) - ", fuzzy_ratio>>,
                   <<"TE", translation_error>>,
                   <<"NNF", gender_error>>,
                   <<"GNF", gender_error>>,
                   <<"GM", gender_error>> >>)
    IN [raises |-> None,
        is_needs_review |-> tm \/ te \/ nnf \/ gnf \/ gm,
        review_reason |-> Join(review_reason, ReasonSep),
        review_detail |-> Join(review_detail, DetailSep)]

\* variant: the suppression flag not consulted
ok_to_display_without_flag(is_needs_review, is_ignore_translation_error) ==
    ~is_needs_review

\* is_ok_to_display = True if (not is_needs_review) or is_ignore_translation_error
ok_to_display(is_needs_review, is_ignore_translation_error) ==
    (~is_needs_review) \/ is_ignore_translation_error

\* the gender check main() makes for a row: only nouns are checked
gender_res(checker, row, lexicon) ==
    IF row.is_source_noun
    THEN validate_gender(checker, lexicon, row.source_noun_gender)
    ELSE [is_gender_match |-> None, lexical_gender |-> None, gender_error |-> None]

\* variant: for a noun the text sent to the translator (source_noun) is stored
\* as source_phrase
result_row_noun_as_phrase(row, translation_res, gres, error_res) ==
    [row EXCEPT !.source_phrase = IF row.is_source_noun THEN row.source_noun[1] ELSE @] @@
    [translation |-> translation_res.translation,
     fuzzy_ratio |-> translation_res.fuzzy_ratio,
     is_gender_match |-> gres.is_gender_match,
     lexical_gender |-> gres.lexical_gender,
     is_needs_review |-> error_res.is_needs_review,
     review_reason |-> error_res.review_reason,
     review_detail |-> error_res.review_detail,
     is_ok_to_display |-> ok_to_display(error_res.is_needs_review,
                                        row.is_ignore_translation_error)]

\* the dict main() appends to validation_results for one row
result_row(row, translation_res, gres, error_res) ==
    row @@
    [translation |-> translation_res.translation,
     fuzzy_ratio |-> translation_res.fuzzy_ratio,
     is_gender_match |-> gres.is_gender_match,
     lexical_gender |-> gres.lexical_gender,
     is_needs_review |-> error_res.is_needs_review,
     review_reason |-> error_res.review_reason,
     review_detail |-> error_res.review_detail,
     is_ok_to_display |-> ok_to_display(error_res.is_needs_review,
                                        row.is_ignore_translation_error)]

\* Series.astype(bool) on one value: bool(None) is False
astype_bool(o) == Some(o # None /\ o[1])

\* pd.DataFrame(validation_results) followed by the three astype(bool) lines
report_dataframe(results) ==
    [k \in 1..Len(results) |->
        [results[k] EXCEPT !.is_gender_match = astype_bool(@)]]

\* `if word_limit:` - None and 0 mean no limit
limit_set(limit) == limit # None /\ limit[1] # 0

\* variant: enumerate() left at its default start of 0, so idx trails by one
loop_done_idx_from_zero(df, results, limit) ==
    \/ Len(results) = Len(df)
    \/ limit_set(limit) /\ Len(results) = limit[1] + 1

\* the for loop is over: rows exhausted, or the break at idx == word_limit
loop_done(df, results, limit) ==
    \/ Len(results) = Len(df)
    \/ limit_set(limit) /\ Len(results) = limit[1]

WordLimits == {None} \cup { Some(n) : n \in 0..MaxRecords }

----------------------------------------------------------------------------
(* Text: a Python str is a sequence of one-character strings *)

\* ord(c) for the characters the corpora of this model use
Ord(c) ==
    CASE c = "\t" -> 9   [] c = " " -> 32  [] c = "#" -> 35  [] c = "(" -> 40
      [] c = ")" -> 41   [] c = "," -> 44  [] c = "." -> 46  [] c = ":" -> 58
      [] c = ">" -> 62   [] c = "A" -> 65  [] c = "E" -> 69  [] c = "F" -> 70
      [] c = "a" -> 97   [] c = "b" -> 98  [] c = "c" -> 99  [] c = "e" -> 101
      [] c = "f" -> 102  [] c = "g" -> 103 [] c = "i" -> 105 [] c = "l" -> 108
      [] c = "m" -> 109  [] c = "n" -> 110 [] c = "o" -> 111 [] c = "r" -> 114
      [] c = "s" -> 115  [] c = "t" -> 116 [] c = "w" -> 119 [] c = "x" -> 120
      [] c = "y" -> 121  [] c = "z" -> 122 [] c = "à" -> 224 [] c = "é" -> 233
      [] c = "ê" -> 234
      [] OTHER -> 63

\* str.isspace() of one character
IsSpace(c) == c \in {" ", "\t"}

\* c.lower()
LowerChar(c) ==
    CASE c = "A" -> "a" [] c = "E" -> "e" [] c = "F" -> "f" [] OTHER -> c

\* s < t for Python strings: lexicographic by code point
RECURSIVE StrLess(_, _)
StrLess(s, t) ==
    IF Len(t) = 0 THEN FALSE
    ELSE IF Len(s) = 0 THEN TRUE
    ELSE IF s[1] # t[1] THEN Ord(s[1]) < Ord(t[1])
    ELSE StrLess(Tail(s), Tail(t))

StrLeq(s, t) == s = t \/ StrLess(s, t)

StartsWith(s, prefix) ==
    Len(prefix) <= Len(s) /\ SubSeq(s, 1, Len(prefix)) = prefix

EndsWith(s, suffix) ==
    Len(suffix) <= Len(s) /\ SubSeq(s, Len(s) - Len(suffix) + 1, Len(s)) = suffix

\* s.find(sub) + 1: the 1-based index of the first occurrence, 0 when absent
Find(s, sub) ==
    LET hits == { i \in 1..(Len(s) - Len(sub) + 1) : SubSeq(s, i, i + Len(sub) - 1) = sub }
    IN IF hits = {} THEN 0 ELSE CHOOSE i \in hits : \A j \in hits : i <= j

\* s.rstrip()
RECURSIVE RStrip(_)
RStrip(s) ==
    IF Len(s) > 0 /\ IsSpace(s[Len(s)]) THEN RStrip(SubSeq(s, 1, Len(s) - 1)) ELSE s

\* s.lstrip()
RECURSIVE LStrip(_)
LStrip(s) ==
    IF Len(s) > 0 /\ IsSpace(s[1]) THEN LStrip(Tail(s)) ELSE s

\* s.strip()
Strip(s) == LStrip(RStrip(s))

\* s.partition(sep): <<before, sep, after>>, or <<s, '', ''>> when sep is absent
Partition(s, sep) ==
    LET i == Find(s, sep)
    IN IF i = 0 THEN <<s, <<>>, <<>>>>
       ELSE <<SubSeq(s, 1, i - 1), sep, SubSeq(s, i + Len(sep), Len(s))>>

\* number of occurrences of character c in s
Count(s, c) == Cardinality({ i \in 1..Len(s) : s[i] = c })

----------------------------------------------------------------------------
(* convert_lang_csv_to_df.py: per-entry derivations *)

\* extract_noun: regex ^(?P<source_noun>.+?)\s*\((?P<source_noun_gender>[mf])\)
\* matched at the start; the lazy group takes the shortest prefix that works.
\* Returns <<source_is_noun, source_noun, source_noun_gender>>.
extract_noun(source_phrase) ==
    LET n == Len(source_phrase)
        marker_at(j) == /\ j + 2 <= n
                        /\ source_phrase[j] = "("
                        /\ source_phrase[j + 1] \in {"m", "f"}
                        /\ source_phrase[j + 2] = ")"
        ends == { i \in 1..n :
                    \E j \in (i + 1)..n :
                        /\ marker_at(j)
                        /\ \A k \in (i + 1)..(j - 1) : IsSpace(source_phrase[k]) }
    IN IF ends = {} THEN <<FALSE, None, None>>
       ELSE LET i == CHOOSE x \in ends : \A y \in ends : x <= y
                j == CHOOSE x \in (i + 1)..n :
                        /\ marker_at(x)
                        /\ \A k \in (i + 1)..(x - 1) : IsSpace(source_phrase[k])
            IN <<TRUE, Some(SubSeq(source_phrase, 1, i)), Some(source_phrase[j + 1])>>

SPECIAL_COMMENT ==
    <<"#", " ", "i", "g", "n", "o", "r", "e", " ", "t", "r", "a", "n", "s", "l", "a",
      "t", "i", "o", "n", " ", "e", "r", "r", "o", "r">>

\* variant: the special comment looked for anywhere in s, not at its end
get_phrase_short_anywhere(s, comment_marker, special_comment) ==
    LET i == Find(s, comment_marker)
        s_short == IF i # 0 THEN Strip(SubSeq(s, 1, i - 1)) ELSE s
    IN <<s_short, Find(s, special_comment) # 0>>

\* get_phrase_short: <<s_short, is_special_comment>>
get_phrase_short(s, comment_marker, special_comment) ==
    LET i == Find(s, comment_marker)
        s_short == IF i # 0 THEN Strip(SubSeq(s, 1, i - 1)) ELSE s
    IN <<s_short, EndsWith(s, special_comment)>>

\* one pass of re.sub(r'\([^()]*\)', '', s): every innermost bracket group goes
RECURSIVE sub_innermost(_)
sub_innermost(s) ==
    IF Len(s) = 0 THEN <<>>
    ELSE IF s[1] = "("
    THEN LET rest == Tail(s)
             stops == { i \in 1..Len(rest) : rest[i] \in {"(", ")"} }
             stop == IF stops = {} THEN 0 ELSE CHOOSE i \in stops : \A j \in stops : i <= j
         IN IF stop # 0 /\ rest[stop] = ")"
            THEN sub_innermost(SubSeq(rest, stop + 1, Len(rest)))
            ELSE <<s[1]>> \o sub_innermost(rest)
    ELSE <<s[1]>> \o sub_innermost(Tail(s))

RECURSIVE remove_passes(_, _)
remove_passes(s, passes) ==
    IF passes = 0 THEN s ELSE remove_passes(Strip(sub_innermost(s)), passes - 1)

\* variant: a single re.sub pass, whatever the number of brackets
remove_str_in_brackets_single_pass(s) ==
    remove_passes(s, IF Count(s, "(") > 0 THEN 1 ELSE 0)

\* remove_str_in_brackets: one pass per '(' counted in the original string
remove_str_in_brackets(s) == remove_passes(s, Count(s, "("))

\* clean: brackets removed, then cut at the first 'e.g', stripped
clean(s) ==
    LET s_clean == remove_str_in_brackets(s)
        i == Find(s_clean, <<"e", ".", "g">>)
    IN Strip(IF i = 0 THEN s_clean ELSE SubSeq(s_clean, 1, i - 1))

\* unidecode of one character
unidecode_char(c) ==
    CASE c = "à" -> <<"a">> [] c = "é" -> <<"e">> [] c = "ê" -> <<"e">> [] OTHER -> <<c>>

\* remove_diacritic
RECURSIVE remove_diacritic(_)
remove_diacritic(s) ==
    IF Len(s) = 0 THEN <<>> ELSE unidecode_char(s[1]) \o remove_diacritic(Tail(s))

\* regex_pattern.findall(src_phrase) for r'.+?\((.*)\)': at most one capture,
\* from the first '(' that is not the first character to the last ')'
between_brackets(src_phrase) ==
    LET n == Len(src_phrase)
        closes == { r \in 1..n : src_phrase[r] = ")" }
        last == IF closes = {} THEN 0 ELSE CHOOSE r \in closes : \A x \in closes : x <= r
        opens == { q \in 2..n : src_phrase[q] = "(" /\ q < last }
    IN IF opens = {} THEN <<>>
       ELSE LET q == CHOOSE x \in opens : \A y \in opens : x <= y
            IN << SubSeq(src_phrase, q + 1, last - 1) >>

\* the dataframe row derived from one (source phrase, target phrase) pair
language_row(src_phrase, tgt_phrase, src_hdr, tgt_hdr) ==
    LET noun == extract_noun(src_phrase)
        short == get_phrase_short(tgt_phrase, <<"#">>, SPECIAL_COMMENT)
    IN [source_phrase |-> src_phrase,
        target_phrase |-> tgt_phrase,
        source_language |-> src_hdr,
        target_language |-> tgt_hdr,
        is_source_noun |-> noun[1],
        source_noun |-> noun[2],
        source_noun_gender |-> noun[3],
        target_phrase_short |-> clean(short[1]),
        is_ignore_translation_error |-> short[2],
        source_phrase_no_diacritic |-> remove_diacritic(src_phrase)]

----------------------------------------------------------------------------
(* convert_lang_csv_to_df.py: convert_csv_to_dataframe, lines 285-343 *)

Sep == <<":", " ">>

ParseStart ==
    [error |-> None, src_hdr |-> None, tgt_hdr |-> None,
     comment |-> <<>>, key_comment |-> <<>>, src_phrase_l |-> <<>>, tgt_phrase_l |-> <<>>]

\* the loop over enumerate(file); idx is the 1-based position, the code's
\* enumerate index is idx - 1
RECURSIVE parse_lines(_, _, _)
parse_lines(lines, idx, st) ==
    IF idx > Len(lines) THEN st
    ELSE
    LET line == lines[idx]
    IN IF StartsWith(line, <<"#">>) \/ Strip(line) = <<>>
       THEN parse_lines(lines, idx + 1, [st EXCEPT !.comment = Append(@, line)])
       ELSE IF StartsWith(line, <<">">>)
       THEN IF st.src_hdr # None /\ st.src_hdr[1] # <<>>
            THEN [st EXCEPT !.error = Some(<<"ValueError", "header already set", idx - 1>>)]
            ELSE LET p == Partition(RStrip(line), Sep)
                 IN parse_lines(lines, idx + 1,
                        [st EXCEPT !.comment = Append(@, line),
                                   !.src_hdr = Some(Tail(p[1])),
                                   !.tgt_hdr = Some(p[3]),
                                   !.key_comment = Append(st.comment, line)])
       ELSE LET p == Partition(RStrip(line), Sep)
            IN IF p[1] = <<>> \/ p[3] = <<>>
               THEN [st EXCEPT !.error =
                        Some(<<"ValueError", "unexpected empty source or target value", idx - 1>>)]
               ELSE IF /\ between_brackets(p[1]) # <<>>
                       /\ between_brackets(p[1])[1] # <<"m">>
                       /\ between_brackets(p[1])[1] # <<"f">>
               THEN [st EXCEPT !.error =
                        Some(<<"ValueError", "invalid source phrase", idx - 1>>)]
               ELSE parse_lines(lines, idx + 1,
                        [st EXCEPT !.src_phrase_l =
                                      Append(@, <<LowerChar(p[1][1])>> \o Tail(p[1])),
                                   !.tgt_phrase_l = Append(@, p[3])])

\* lines 294-374: the parse result; error is None or the ValueError raised.
\* A corpus without entries fails in the column assignment of line 356.
parse_corpus(lines) ==
    LET st == parse_lines(lines, 1, ParseStart)
    IN IF st.error # None THEN [error |-> st.error, key_comment |-> <<>>, df |-> <<>>]
       ELSE IF st.src_hdr = None \/ st.src_hdr[1] = <<>>
               \/ st.tgt_hdr = None \/ st.tgt_hdr[1] = <<>>
       THEN [error |-> Some(<<"ValueError", "no header found in file!", 0>>),
             key_comment |-> <<>>, df |-> <<>>]
       ELSE IF st.src_phrase_l = <<>>
       THEN [error |-> Some(<<"ValueError", "Columns must be same length as key", 0>>),
             key_comment |-> <<>>, df |-> <<>>]
       ELSE [error |-> None,
             key_comment |-> st.key_comment,
             df |-> [k \in 1..Len(st.src_phrase_l) |->
                        language_row(st.src_phrase_l[k], st.tgt_phrase_l[k],
                                     st.src_hdr[1], st.tgt_hdr[1])]]

----------------------------------------------------------------------------
(* verify: check_df_translation.main *)

NoChecker == "unset"

\* fuzzy ratios the matcher may return: around the threshold and the extremes
BoundaryRatios == {0, FUZZY_RATIO_THRESHOLD - 1, FUZZY_RATIO_THRESHOLD, 100}

\* every value of fuzz.token_set_ratio
AllRatios == 0..100

InitVerify(record_sets) ==
    /\ language_df \in record_sets
    /\ word_limit \in WordLimits
    /\ translation_checker = NoChecker
    /\ validation_results = <<>>
    /\ calls = <<>>
    /\ dfv = <<>>
    /\ report_file = None
    /\ printed = None
    /\ vpc = "load"

\* lines 142-156: load succeeds, schema is validated, checker is selected
LoadLanguageData ==
    /\ vpc = "load"
    /\ IF validate_language_dataframe_schema(language_df) = None
       THEN /\ translation_checker' =
                   get_checker(language_df[1].source_language,
                               language_df[1].target_language)
            /\ vpc' = "loop"
       ELSE /\ vpc' = "load_error"
            /\ UNCHANGED translation_checker
    /\ UNCHANGED <<language_df, word_limit, validation_results, calls, dfv,
                   report_file, printed>>
    /\ UNCHANGED <<ivars, svars>>

\* lines 142-147: the feather file is missing or unreadable; main prints and returns
LoadFails ==
    /\ vpc = "load"
    /\ vpc' = "load_error"
    /\ UNCHANGED <<language_df, word_limit, translation_checker,
                   validation_results, calls, dfv, report_file, printed>>
    /\ UNCHANGED <<ivars, svars>>

\* lines 166-246: one iteration of the loop over language_df.iterrows()
ProcessRecord(ratios) ==
    /\ vpc = "loop"
    /\ ~loop_done(language_df, validation_results, word_limit)
    /\ LET row == language_df[Len(validation_results) + 1]
           lexicons == IF row.is_source_noun
                          /\ translation_checker = "FrenchEnglishChecker"
                       THEN LexiconOutcomes ELSE {None}
       IN \E outcome \in TranslatorOutcomes(ratios), lexicon \in lexicons :
            LET translation_res == check_translation(outcome)
                gres == gender_res(translation_checker, row, lexicon)
                error_res == analyse_errors(translation_res.translation_error,
                                            translation_res.fuzzy_ratio,
                                            row.is_source_noun,
                                            gres.gender_error,
                                            gres.is_gender_match,
                                            gres.lexical_gender)
            IN /\ calls' = Append(calls, [translator |-> outcome, lexicon |-> lexicon])
               /\ IF error_res.raises # None
                  THEN /\ vpc' = "raised"
                       /\ UNCHANGED validation_results
                  ELSE /\ validation_results' =
                              Append(validation_results,
                                     result_row(row, translation_res, gres, error_res))
                       /\ UNCHANGED vpc
    /\ UNCHANGED <<language_df, word_limit, translation_checker, dfv,
                   report_file, printed>>
    /\ UNCHANGED <<ivars, svars>>

VerifyRecord == ProcessRecord(BoundaryRatios)

VerifyRecordAnyRatio == ProcessRecord(AllRatios)

\* lines 248-257: build the report dataframe, coerce the boolean columns,
\* validate it; a schema error is raised out of main (no try around it)
BuildReport ==
    /\ vpc = "loop"
    /\ loop_done(language_df, validation_results, word_limit)
    /\ dfv' = report_dataframe(validation_results)
    /\ vpc' = IF validate_report_dataframe_schema(dfv') = None THEN "save" ELSE "raised"
    /\ UNCHANGED <<language_df, word_limit, translation_checker,
                   validation_results, calls, report_file, printed>>
    /\ UNCHANGED <<ivars, svars>>

\* rows of the loaded report that count as needing review (line 270)
items_to_review(df) ==
    Cardinality({ k \in 1..Len(df) : df[k].is_ok_to_display # TRUE })

\* lines 259-271: to_feather, reload + validate, print the totals
SaveReport ==
    /\ vpc = "save"
    /\ report_file' = Some(dfv)
    /\ printed' = IF validate_report_dataframe_schema(dfv) = None
                  THEN Some([items_tot |-> Len(dfv),
                             items_to_review |-> items_to_review(dfv)])
                  ELSE None
    /\ vpc' = "done"
    /\ UNCHANGED <<language_df, word_limit, translation_checker,
                   validation_results, calls, dfv>>
    /\ UNCHANGED <<ivars, svars>>

\* lines 259-274: to_feather raises; the except prints and main returns
SaveFails ==
    /\ vpc = "save"
    /\ vpc' = "done"
    /\ UNCHANGED <<language_df, word_limit, translation_checker,
                   validation_results, calls, dfv, report_file, printed>>
    /\ UNCHANGED <<ivars, svars>>

----------------------------------------------------------------------------
(* ingest: convert_lang_csv_to_df.main, convert_csv_to_dataframe,
   sort_and_remove_duplicates *)

MaxEntries == 2

MaxNow == 3

\* clock ticks per second: strftime("%Y_%m_%d-%I_%M_%S_%p") keeps whole seconds
TicksPerSecond == 2

\* datetime.now().strftime(...) at clock value t
strftime(t) == t \div TicksPerSecond

Timestamps == { strftime(t) : t \in 0..MaxNow }

\* file names built from words_csv: f"{fname}{marker}{ext}"
words_csv == <<"words", <<"">>, ".csv">>

words_temp_csv == <<"words", <<"_tmp">>, ".csv">>

words_dups_csv == <<"words", <<"_duplicates">>, ".csv">>

words_save_csv(timestamp) == <<"words", <<"_saved_", timestamp>>, ".csv">>

FileNames ==
    {words_csv, words_temp_csv, words_dups_csv}
    \cup { words_save_csv(t) : t \in Timestamps }

\* corpora a user may have in words_csv: a preamble and up to MaxEntries entries
Preamble == << <<"#", " ", "c">>, <<">", "F", ":", " ", "E">> >>

EntryLines ==
    { <<"a", " ", "(", "m", ")", ":", " ", "x">>,
      <<"é", ":", " ", "x">>,
      <<"e", ":", " ", "y">> }

RECURSIVE SeqsOfLen(_, _)
SeqsOfLen(S, n) ==
    IF n = 0 THEN { <<>> }
    ELSE { <<x>> \o t : x \in S, t \in SeqsOfLen(S, n - 1) }

Corpora ==
    { Preamble \o es : es \in UNION { SeqsOfLen(EntryLines, n) : n \in 1..MaxEntries } }

\* df.sort_values(by=['source_phrase_no_diacritic']): the default quicksort is
\* not stable, so rows with equal keys may come out in any order
sort_values(df) ==
    LET n == Len(df)
        rows == { df[k] : k \in 1..n }
        times(s, r) == Cardinality({ k \in 1..n : s[k] = r })
    IN { s \in [1..n -> rows] :
           /\ \A r \in rows : times(s, r) = times(df, r)
           /\ \A k \in 1..(n - 1) :
                StrLeq(s[k].source_phrase_no_diacritic,
                       s[k + 1].source_phrase_no_diacritic) }

\* variant: whole rows compared instead of the sort key column
is_original_sorted_rows(df, df_sorted) ==
    \A k \in 1..Len(df) : df[k] = df_sorted[k]

\* all(df.source_phrase_no_diacritic == df_sorted.source_phrase_no_diacritic)
is_original_sorted(df, df_sorted) ==
    \A k \in 1..Len(df) :
        df[k].source_phrase_no_diacritic = df_sorted[k].source_phrase_no_diacritic

\* df.duplicated(): row k repeats an earlier row
duplicated(df, k) == \E j \in 1..(k - 1) : df[j] = df[k]

\* df.duplicated().sum()
duplicated_count(df) == Cardinality({ k \in 1..Len(df) : duplicated(df, k) })

\* variant: keep=False, every row that has a copy is dropped
drop_duplicates_keep_none(df) ==
    SelectSeq(df, LAMBDA r : Cardinality({ k \in 1..Len(df) : df[k] = r }) = 1)

\* df.drop_duplicates(ignore_index=True): first occurrences, order kept
RECURSIVE drop_duplicates(_)
drop_duplicates(df) ==
    IF Len(df) = 0 THEN <<>>
    ELSE LET front == drop_duplicates(SubSeq(df, 1, Len(df) - 1))
         IN IF duplicated(df, Len(df)) THEN front ELSE Append(front, df[Len(df)])

pair_of(row) == <<row.source_phrase, row.target_phrase>>

PairLess(p, q) == StrLess(p[1], q[1]) \/ (p[1] = q[1] /\ StrLess(p[2], q[2]))

\* a finite set of pairs as the list groupby() yields: ascending by (source, target)
RECURSIVE sorted_pairs(_)
sorted_pairs(S) ==
    IF S = {} THEN <<>>
    ELSE LET least == CHOOSE p \in S : \A q \in S \ {p} : PairLess(p, q)
         IN <<least>> \o sorted_pairs(S \ {least})

\* variant: groupby().size() taken over every row of a repeated pair, so the
\* count is the number of occurrences, not of repeats
df_dups_all_occurrences(df_sorted) ==
    LET pairs == [k \in 1..Len(df_sorted) |-> pair_of(df_sorted[k])]
        dup == { k \in 1..Len(pairs) : \E j \in 1..(k - 1) : pairs[j] = pairs[k] }
        groups == sorted_pairs({ pairs[k] : k \in dup })
    IN [g \in 1..Len(groups) |->
           <<groups[g][1], groups[g][2],
             Cardinality({ k \in 1..Len(pairs) : pairs[k] = groups[g] })>>]

\* lines 206-208: the repeated (source_phrase, target_phrase) pairs of
\* df_sorted with the number of repeats of each
df_dups(df_sorted) ==
    LET pairs == [k \in 1..Len(df_sorted) |-> pair_of(df_sorted[k])]
        dup == { k \in 1..Len(pairs) : \E j \in 1..(k - 1) : pairs[j] = pairs[k] }
        groups == sorted_pairs({ pairs[k] : k \in dup })
    IN [g \in 1..Len(groups) |->
           <<groups[g][1], groups[g][2],
             Cardinality({ k \in dup : pairs[k] = groups[g] })>>]

\* line 212: file_info, the banner line
dups_banner(timestamp) == <<"# Duplicates from", words_csv, "written at", timestamp>>

\* lines 211-214: what one run appends to the duplicates log
dups_entry(timestamp, df_sorted) ==
    << dups_banner(timestamp) >> \o df_dups(df_sorted)

\* lines 242-252: the content written to the temporary file
temp_content(key_comment, df_sorted) ==
    key_comment \o
    [k \in 1..Len(df_sorted) |->
        df_sorted[k].source_phrase \o Sep \o df_sorted[k].target_phrase]

NoRun ==
    [key_comment |-> <<>>, df_sorted |-> <<>>, timestamp |-> 0,
     is_original_sorted |-> TRUE, is_original_has_duplicates |-> FALSE,
     validated |-> FALSE, error |-> None]

Idle == {"idle", "done", "error", "crashed"}

InitIngest(corpora) ==
    /\ files \in { [f \in FileNames |-> IF f = words_csv THEN Some(c) ELSE None] :
                     c \in corpora }
    /\ now = 0
    /\ run = NoRun
    /\ files0 = files
    /\ out_file = None
    /\ ipc = "idle"

\* variant: the temporary file is opened before the corpus is parsed, so a
\* parse error leaves it behind
ParseFailsTempLeft(error) ==
    /\ run' = [NoRun EXCEPT !.error = error]
    /\ ipc' = "error"
    /\ files' = [files EXCEPT ![words_temp_csv] = Some(<<>>)]

\* lines 294-340 raise; main's except clause (lines 434-435) prints the error
\* and returns: no file has been written
ParseFails(error) ==
    /\ run' = [NoRun EXCEPT !.error = error]
    /\ ipc' = "error"
    /\ UNCHANGED files

\* main line 425 -> convert_csv_to_dataframe lines 285-374, then
\* sort_and_remove_duplicates lines 182-200: open and parse the corpus, derive
\* the columns, sort, detect duplicates, read the clock
StartIngest ==
    /\ ipc \in Idle
    /\ now < MaxNow
    /\ \E t \in (now + 1)..MaxNow : now' = t
    /\ files0' = files
    /\ IF files[words_csv] = None
       THEN ParseFails(Some(<<"FileNotFoundError", "", 0>>))
       ELSE LET parsed == parse_corpus(files[words_csv][1])
            IN IF parsed.error # None
               THEN ParseFails(parsed.error)
               ELSE \E df_sorted \in sort_values(parsed.df) :
                      LET has_dups == duplicated_count(parsed.df) # 0
                          sorted == is_original_sorted(parsed.df, df_sorted)
                      IN /\ run' = [key_comment |-> parsed.key_comment,
                                    df_sorted |-> df_sorted,
                                    timestamp |-> strftime(now'),
                                    is_original_sorted |-> sorted,
                                    is_original_has_duplicates |-> has_dups,
                                    validated |-> FALSE,
                                    error |-> None]
                         /\ ipc' = IF has_dups THEN "dups"
                                   ELSE IF ~sorted THEN "write_tmp"
                                   ELSE "validate"
                         /\ UNCHANGED files
    /\ UNCHANGED out_file
    /\ UNCHANGED <<vvars, svars>>

\* variant: the log opened with mode 'w' instead of 'a'
LogDuplicatesTruncates ==
    /\ ipc = "dups"
    /\ files' = [files EXCEPT ![words_dups_csv] =
                    Some(dups_entry(run.timestamp, run.df_sorted))]
    /\ run' = [run EXCEPT !.df_sorted = drop_duplicates(@)]
    /\ ipc' = "write_tmp"
    /\ UNCHANGED <<now, files0, out_file>>
    /\ UNCHANGED <<vvars, svars>>

\* lines 211-214: the banner is written and closed (lines 211-213), then
\* to_csv (line 214) raises an OSError, which main() does not catch
LogDuplicatesFails ==
    /\ ipc = "dups"
    /\ files' = [files EXCEPT ![words_dups_csv] =
                    Some((IF @ = None THEN <<>> ELSE @[1])
                         \o << dups_banner(run.timestamp) >>)]
    /\ run' = [run EXCEPT !.error = Some(<<"OSError", "", 0>>)]
    /\ ipc' = "crashed"
    /\ UNCHANGED <<now, files0, out_file>>
    /\ UNCHANGED <<vvars, svars>>

\* lines 203-219: append the duplicates to the log, drop them from the frame
LogDuplicates ==
    /\ ipc = "dups"
    /\ files' = [files EXCEPT ![words_dups_csv] =
                    Some((IF @ = None THEN <<>> ELSE @[1])
                         \o dups_entry(run.timestamp, run.df_sorted))]
    /\ run' = [run EXCEPT !.df_sorted = drop_duplicates(@)]
    /\ ipc' = "write_tmp"
    /\ UNCHANGED <<now, files0, out_file>>
    /\ UNCHANGED <<vvars, svars>>

\* lines 237-252: write preamble and sorted entries to the temporary file
WriteTemp ==
    /\ ipc = "write_tmp"
    /\ files' = [files EXCEPT ![words_temp_csv] =
                    Some(temp_content(run.key_comment, run.df_sorted))]
    /\ ipc' = "archive"
    /\ UNCHANGED <<now, run, files0, out_file>>
    /\ UNCHANGED <<vvars, svars>>

\* lines 242-252 with an I/O error: open() fails and nothing is written, or a
\* write fails and the temporary file holds the lines written so far
WriteTempFails ==
    /\ ipc = "write_tmp"
    /\ LET full == temp_content(run.key_comment, run.df_sorted)
       IN \E partial \in {files[words_temp_csv]}
                         \cup { Some(SubSeq(full, 1, n)) : n \in 0..(Len(full) - 1) } :
            files' = [files EXCEPT ![words_temp_csv] = partial]
    /\ run' = [run EXCEPT !.error = Some(<<"OSError", "", 0>>)]
    /\ ipc' = "crashed"
    /\ UNCHANGED <<now, files0, out_file>>
    /\ UNCHANGED <<vvars, svars>>

\* line 255: shutil.move(words_csv, words_save_csv) - a rename, which replaces
\* a file already at the destination
ArchiveOriginal ==
    /\ ipc = "archive"
    /\ files' = [files EXCEPT ![words_save_csv(run.timestamp)] = files[words_csv],
                              ![words_csv] = None]
    /\ ipc' = "touch"
    /\ UNCHANGED <<now, run, files0, out_file>>
    /\ UNCHANGED <<vvars, svars>>

\* line 256: Path(words_save_csv).touch() - changes the mtime only
TouchArchive ==
    /\ ipc = "touch"
    /\ ipc' = "replace"
    /\ UNCHANGED <<files, now, run, files0, out_file>>
    /\ UNCHANGED <<vvars, svars>>

\* line 257: shutil.move(words_temp_csv, words_csv)
ReplaceCorpus ==
    /\ ipc = "replace"
    /\ files' = [files EXCEPT ![words_csv] = files[words_temp_csv],
                              ![words_temp_csv] = None]
    /\ ipc' = "validate"
    /\ UNCHANGED <<now, run, files0, out_file>>
    /\ UNCHANGED <<vvars, svars>>

\* an OSError raised by open(), shutil.move() or touch() at lines 211, 255,
\* 256 or 257: nothing is changed by the failing call and main() does not
\* catch it
IOFailure ==
    /\ ipc \in {"dups", "archive", "touch", "replace"}
    /\ run' = [run EXCEPT !.error = Some(<<"OSError", "", 0>>)]
    /\ ipc' = "crashed"
    /\ UNCHANGED <<files, now, files0, out_file>>
    /\ UNCHANGED <<vvars, svars>>

\* convert_csv_to_dataframe line 380: validate the reconciled frame
ValidateLanguageData ==
    /\ ipc = "validate"
    /\ LET raised == validate_language_dataframe_schema(run.df_sorted)
       IN IF raised = None
          THEN /\ run' = [run EXCEPT !.validated = TRUE]
               /\ ipc' = "save"
          ELSE /\ run' = [run EXCEPT !.validated = TRUE,
                                     !.error = Some(<<raised[1], "schema", 0>>)]
               /\ ipc' = "error"
    /\ UNCHANGED <<files, now, files0, out_file>>
    /\ UNCHANGED <<vvars, svars>>

\* main lines 426-432: to_feather, then reload and re-validate
SaveLanguageData ==
    /\ ipc = "save"
    /\ out_file' = Some(run.df_sorted)
    /\ ipc' = IF validate_language_dataframe_schema(run.df_sorted) = None
              THEN "done" ELSE "error"
    /\ UNCHANGED <<files, now, run, files0>>
    /\ UNCHANGED <<vvars, svars>>

\* main line 426: to_feather raises an OSError, which main() does not catch
SaveLanguageDataFails ==
    /\ ipc = "save"
    /\ run' = [run EXCEPT !.error = Some(<<"OSError", "", 0>>)]
    /\ ipc' = "crashed"
    /\ UNCHANGED <<files, now, files0, out_file>>
    /\ UNCHANGED <<vvars, svars>>

\* between runs the user edits the corpus file (or restores a missing one);
\* the locals of the last run are gone by then
EditCorpus ==
    /\ ipc \in Idle
    /\ \E c \in Corpora :
         /\ files[words_csv] # Some(c)
         /\ files' = [files EXCEPT ![words_csv] = Some(c)]
    /\ run' = NoRun
    /\ files0' = files'
    /\ ipc' = "idle"
    /\ UNCHANGED <<now, out_file>>
    /\ UNCHANGED <<vvars, svars>>

----------------------------------------------------------------------------
(* Specifications *)

\* verify runs; the ingest side is at rest
VerifyIdle ==
    /\ language_df = <<>>
    /\ word_limit = None
    /\ translation_checker = NoChecker
    /\ validation_results = <<>>
    /\ calls = <<>>
    /\ dfv = <<>>
    /\ report_file = None
    /\ printed = None
    /\ vpc = "idle"

IngestIdle == InitIngest({ Preamble \o <<CHOOSE e \in EntryLines : TRUE>> })

\* no table has been validated yet
NotValidated == [schema |-> "none", error |-> None]

NoTable == [columns |-> <<>>, cells |-> <<>>]

SchemaIdle == stored = NoTable /\ schema_raised = NotValidated

Init == InitVerify(RecordSets) /\ IngestIdle /\ SchemaIdle

Next ==
    \/ LoadLanguageData
    \/ LoadFails
    \/ VerifyRecord
    \/ BuildReport
    \/ SaveReport
    \/ SaveFails

Spec == Init /\ [][Next]_vars

\* one-record verify runs with the fuzzy ratio ranging over all of 0..100
SingleRecordSets == { rs \in RecordSets : Len(rs) = 1 }

InitRatio == InitVerify(SingleRecordSets) /\ IngestIdle /\ SchemaIdle

NextRatio ==
    \/ LoadLanguageData
    \/ LoadFails
    \/ VerifyRecordAnyRatio
    \/ BuildReport
    \/ SaveReport
    \/ SaveFails

SpecRatio == InitRatio /\ [][NextRatio]_vars

\* ingest runs on one corpus path, with edits of the corpus between runs
InitIngestRuns == VerifyIdle /\ InitIngest(Corpora) /\ SchemaIdle

NextIngest ==
    \/ StartIngest
    \/ LogDuplicates
    \/ LogDuplicatesFails
    \/ WriteTemp
    \/ WriteTempFails
    \/ ArchiveOriginal
    \/ TouchArchive
    \/ ReplaceCorpus
    \/ IOFailure
    \/ ValidateLanguageData
    \/ SaveLanguageData
    \/ SaveLanguageDataFails
    \/ EditCorpus

SpecIngest == InitIngestRuns /\ [][NextIngest]_vars

----------------------------------------------------------------------------
(* ingest runs over corpora of every shape the parser distinguishes *)

MaxLines == 3

\* lines a corpus file may hold: comment, headers (complete, without a source
\* language, without separator), entries (well-formed, without separator,
\* without source side, with a bracket that is no gender)
StructureLines ==
    { <<"#", " ", "c">>,
      <<">", "F", ":", " ", "E">>,
      <<">", ":", " ", "E">>,
      <<">", "F">>,
      <<"a", ":", " ", "x">>,
      <<"b", ":", " ", "y">>,
      <<"f", "o", "o">>,
      <<":", " ", "y">>,
      <<"a", " ", "(", "x", ")", ":", " ", "y">> }

StructureCorpora ==
    UNION { SeqsOfLen(StructureLines, n) : n \in 1..MaxLines }

\* source sides of an entry line
SourcePhrases ==
    { <<"a", " ", "(", "m", ")">>,
      <<" ", "(", "m", ")">>,
      <<"a", " ", " ", "(", "f", ")">>,
      <<"a">>,
      <<"(", "m", ")">>,
      <<"(", "x", ")", " ", "a">>,
      <<"A", " ", "(", "f", ")", " ", "b">> }

\* target sides of an entry line
TargetPhrases ==
    { <<"x">>,
      <<"x", " ", "#", " ", "i", "g", "n", "o", "r", "e", " ", "t", "r", "a", "n", "s", "l", "a", "t", "i", "o", "n", " ", "e", "r", "r", "o", "r">>,
      <<"x", " ", "#", " ", "c", " ", "#", " ", "i", "g", "n", "o", "r", "e", " ", "t", "r", "a", "n", "s", "l", "a", "t", "i", "o", "n", " ", "e", "r", "r", "o", "r">>,
      <<"x", " ", "#", " ", "i", "g", "n", "o", "r", "e", " ", "t", "r", "a", "n", "s", "l", "a", "t", "i", "o", "n", " ", "e", "r", "r", "o", "r", " ", "#", " ", "c">>,
      <<"x", " ", "(", "y", " ", "(", "z", ")", ")", " ", "w">>,
      <<"(", "a", ")", "(", "b", ")", " ", "x">>,
      <<"x", " ", "e", ".", "g", ".", " ", "y">>,
      <<"e", "(", "x", ")", ".", "g", " ", "y">>,
      <<" ", "x">>,
      <<"x", " ", "(", "y">> }

\* one entry under a complete header
DerivationCorpora ==
    { << <<">", "F", ":", " ", "E">>, src \o Sep \o tgt >> :
        src \in SourcePhrases, tgt \in TargetPhrases }

MaxReconcileEntries == 4

\* what precedes the entries: a header, or two header lines of which the
\* first names no source language, with a comment between them
ReconcilePreambles ==
    { << <<">", "F", ":", " ", "E">> >>,
      << <<">", ":", " ", "E">>, <<"#", " ", "c">>, <<">", "F", ":", " ", "E">> >> }

ReconcileEntryLines == { <<"a", ":", " ", "x">>, <<"b", ":", " ", "y">> }

\* corpora of MaxReconcileEntries entries, repeated and out of order
ReconcileCorpora ==
    { pre \o es : pre \in ReconcilePreambles,
                  es \in SeqsOfLen(ReconcileEntryLines, MaxReconcileEntries) }

ParseCorpora ==
    StructureCorpora \cup DerivationCorpora \cup Corpora \cup ReconcileCorpora

\* the duplicates log before the first run: the corpora of ReconcileCorpora
\* come with the entry an earlier run left, the others with no log
PriorLog(corpus) ==
    IF corpus \in ReconcileCorpora
    THEN Some(<< dups_banner(0), << <<"a">>, <<"x">>, 1 >> >>)
    ELSE None

InitParse ==
    /\ VerifyIdle
    /\ SchemaIdle
    /\ files \in { [f \in FileNames |->
                       IF f = words_csv THEN Some(c)
                       ELSE IF f = words_dups_csv THEN PriorLog(c)
                       ELSE None] : c \in ParseCorpora }
    /\ now = 0
    /\ run = NoRun
    /\ files0 = files
    /\ out_file = None
    /\ ipc = "idle"

NextParse ==
    \/ StartIngest
    \/ LogDuplicates
    \/ LogDuplicatesFails
    \/ WriteTemp
    \/ WriteTempFails
    \/ ArchiveOriginal
    \/ TouchArchive
    \/ ReplaceCorpus
    \/ IOFailure
    \/ ValidateLanguageData
    \/ SaveLanguageData
    \/ SaveLanguageDataFails

SpecParse == InitParse /\ [][NextParse]_vars

----------------------------------------------------------------------------
(* Schema validation of tables that come from storage *)

MaxTableRows == 2

Reverse(seq) == [k \in 1..Len(seq) |-> seq[Len(seq) + 1 - k]]

Without(seq, name) == SelectSeq(seq, LAMBDA c : c # name)

\* a column of the declared type as the pipeline writes it
declared_cells(expected_type) ==
    [k \in 1..MaxTableRows |->
        CASE expected_type \in {"bool", "Optional[bool]"} ->
                 IF k = 1 THEN "True" ELSE "False"
          [] expected_type = "int" -> "3"
          [] expected_type = "Optional[Literal['m', 'f']]" ->
                 IF k = 1 THEN "'m'" ELSE NoneValue
          [] OTHER -> "'a'"]

CellValues == BoolValues \cup IntValues \cup StrValues \cup {NoneValue}

\* the column lists a stored table may have: the schema's, in either order,
\* with one column missing, or with a column the schema does not know
ColumnLists(expected_schema) ==
    LET order == annotations(expected_schema)
        base == { order, Without(order, "source_noun"), Without(order, "is_source_noun"),
                  order \o <<"extra">>, Without(order, "source_phrase") \o <<"extra">> }
    IN base \cup { Reverse(columns) : columns \in base }

\* tables over the schema in which at most one column holds arbitrary cell
\* values
TablesOf(expected_schema) ==
    LET names == DOMAIN expected_schema \cup {"extra"}
        declared == [c \in names |->
                       IF c \in DOMAIN expected_schema
                       THEN declared_cells(expected_schema[c])
                       ELSE declared_cells("str")]
        deviants == { {} } \cup { {c} : c \in names }
        cells == UNION { { [c \in names |-> IF c \in D THEN f[c] ELSE declared[c]] :
                             f \in [D -> [1..MaxTableRows -> CellValues]] } :
                         D \in deviants }
    IN { [columns |-> columns,
          cells |-> [c \in { columns[k] : k \in 1..Len(columns) } |-> all[c]]] :
            columns \in ColumnLists(expected_schema), all \in cells }

\* what pd.read_feather may return for the loader of the given schema, or
\* for the other loader's file
StoredTables(expected_schema) ==
    TablesOf(expected_schema) \cup TablesOf(LanguageDataSchema)
    \cup TablesOf(ValidationReportDataSchema)

\* load_language_data_df_from_feather: the table is read and validated
\* against LanguageDataSchema
LoadLanguageTable ==
    /\ stored = NoTable
    /\ \E table \in StoredTables(LanguageDataSchema) :
         /\ stored' = table
         /\ schema_raised' = [schema |-> "language",
                              error |-> validate_table_schema(table, LanguageDataSchema)]
    /\ UNCHANGED <<vvars, ivars>>

\* load_report_data_df_from_feather: the table is read and validated against
\* ValidationReportDataSchema
LoadReportTable ==
    /\ stored = NoTable
    /\ \E table \in StoredTables(ValidationReportDataSchema) :
         /\ stored' = table
         /\ schema_raised' = [schema |-> "report",
                              error |-> validate_table_schema(table, ValidationReportDataSchema)]
    /\ UNCHANGED <<vvars, ivars>>

InitSchema == VerifyIdle /\ IngestIdle /\ SchemaIdle

NextSchema ==
    \/ LoadLanguageTable
    \/ LoadReportTable

SpecSchema == InitSchema /\ [][NextSchema]_vars

----------------------------------------------------------------------------
(* Properties *)

\* the codes of a joined review_reason, separators dropped
Codes(review_reason) == SelectSeq(review_reason, LAMBDA t : t # ReasonSep)

HasCode(row, code) == \E i \in 1..Len(row.review_reason) : row.review_reason[i] = code

\* the entries of a joined review_detail, separators dropped
Details(review_detail) == SelectSeq(review_detail, LAMBDA t : t # DetailSep)

CodeRank(code) ==
    CASE code = "TM" -> 1 [] code = "TE" -> 2 [] code = "NNF" -> 3
      [] code = "GNF" -> 4 [] code = "GM" -> 5 [] OTHER -> 0

\* records whose translation call raised
FailedCalls == { k \in 1..Len(calls) : calls[k].translator.raises # None }

\* C1: a translation failure for some record does not abort the verify run:
\* the run never ends in an uncaught exception, and the report it persists has
\* one row per processed record, the failed record's row carrying TE with
\* translation and fuzzy_ratio absent.
C1_TranslationFailureDoesNotAbort ==
    FailedCalls # {} =>
        /\ vpc # "raised"
        /\ report_file # None =>
             /\ Len(report_file[1]) = Len(calls)
             /\ \A k \in FailedCalls :
                  /\ HasCode(report_file[1][k], "TE")
                  /\ report_file[1][k].translation = None
                  /\ report_file[1][k].fuzzy_ratio = None

\* C2: during and after a reconciler run the corpus path always holds the
\* complete prior content or the complete new content, never a partial file
\* and never no file.
C2_CorpusNeverMissingOrPartial ==
    files0[words_csv] # None =>
        /\ files[words_csv] # None
        /\ \/ files[words_csv] = files0[words_csv]
           \/ files[words_csv] = Some(temp_content(run.key_comment, run.df_sorted))

ArchiveNames == { words_save_csv(t) : t \in Timestamps }

\* C3: no step of any run overwrites or deletes an archive that already
\* exists, also when two rewrites fall within the same timestamp value.
C3_ArchivesNeverOverwritten ==
    [][\A f \in ArchiveNames : files[f] # None => files'[f] = files[f]]_vars

\* C4: the record set is validated before the reconciler touches any file, so
\* a run that ends in a schema error has changed no file.
C4_ValidatedBeforeFilesTouched ==
    /\ files # files0 => run.validated
    /\ (ipc = "error" /\ run.validated) => files = files0

\* the rows appended so far, with what the collaborators answered for each
RowIndex == 1..Len(validation_results)

NounUnderLexicon(k) ==
    /\ validation_results[k].is_source_noun
    /\ translation_checker = "FrenchEnglishChecker"

\* the lexicon has the word form but yields no single gender
FoundUndetermined(k) ==
    /\ calls[k].lexicon # None
    /\ Cardinality(unique_genders(calls[k].lexicon[1])) # 1

\* C5: a noun found in the lexicon whose gender cannot be determined gets GNF
\* and not NNF; NNF is only for nouns not found in the lexicon.
C5_FoundButUndeterminedIsGNF ==
    \A k \in RowIndex :
        NounUnderLexicon(k) =>
            /\ FoundUndetermined(k) =>
                 /\ HasCode(validation_results[k], "GNF")
                 /\ ~HasCode(validation_results[k], "NNF")
            /\ HasCode(validation_results[k], "NNF") => calls[k].lexicon = None

\* C6: in every row of the persisted report is_gender_match is true iff
\* lexical_gender is present and equals source_noun_gender, and it is absent
\* (not false) for non-nouns and for nouns of undetermined gender.
C6_GenderMatchAbsentWhenUndetermined ==
    report_file # None =>
        \A k \in 1..Len(report_file[1]) :
            LET r == report_file[1][k]
            IN /\ r.is_gender_match = Some(TRUE) <=>
                    (r.lexical_gender # None /\ r.lexical_gender = r.source_noun_gender)
               /\ (~r.is_source_noun \/ r.lexical_gender = None) =>
                    r.is_gender_match = None

\* C7: review_reason lists the triggered codes in the order TM, TE, NNF, GNF,
\* GM, each at most once, joined by '; '; review_detail has one entry per code
\* in the same order; is_needs_review is true iff review_reason is non-empty.
C7_ReviewReasonOrdered ==
    \A k \in RowIndex :
        LET r == validation_results[k]
            codes == Codes(r.review_reason)
            details == Details(r.review_detail)
        IN /\ \A i \in 1..Len(codes) : CodeRank(codes[i]) # 0
           /\ \A i, j \in 1..Len(codes) : i < j => CodeRank(codes[i]) < CodeRank(codes[j])
           /\ r.review_reason = Join(codes, ReasonSep)
           /\ Len(details) = Len(codes)
           /\ \A i \in 1..Len(codes) : details[i][1] = codes[i]
           /\ r.review_detail = Join(details, DetailSep)
           /\ r.is_needs_review <=> (r.review_reason # <<>>)

C7_Witness ==
    \E k \in RowIndex :
        Codes(validation_results[k].review_reason) = <<"TM", "GM">>

\* rows i and j come from records that differ only in the suppression flag
\* (and the target phrase annotation that sets it) and got the same answers
SameButFlag(i, j) ==
    /\ validation_results[i].is_ignore_translation_error
         # validation_results[j].is_ignore_translation_error
    /\ \A c \in DOMAIN LanguageDataSchema \ {"is_ignore_translation_error", "target_phrase"} :
         validation_results[i][c] = validation_results[j][c]
    /\ calls[i] = calls[j]

\* C8: is_ok_to_display = (not is_needs_review) or is_ignore_translation_error;
\* two records differing only in the flag get the same is_needs_review and
\* review_reason.
C8_OkToDisplay ==
    /\ \A k \in RowIndex :
         validation_results[k].is_ok_to_display
            = (~validation_results[k].is_needs_review
               \/ validation_results[k].is_ignore_translation_error)
    /\ \A i, j \in RowIndex :
         SameButFlag(i, j) =>
            /\ validation_results[i].is_needs_review = validation_results[j].is_needs_review
            /\ validation_results[i].review_reason = validation_results[j].review_reason

C8_Witness ==
    \E i, j \in RowIndex :
        /\ SameButFlag(i, j)
        /\ validation_results[i].is_needs_review
        /\ ~validation_results[i].is_ok_to_display
        /\ validation_results[j].is_ok_to_display

\* C9: review_reason contains TM iff the translation call succeeded and the
\* fuzzy ratio is below 85: ratios 0..84 trigger TM, ratios 85..100 do not.
C9_TMBelowThreshold ==
    \A k \in RowIndex :
        LET t == calls[k].translator
        IN /\ HasCode(validation_results[k], "TM") <=> (t.raises = None /\ t.ratio[1] < 85)
           /\ (t.raises = None /\ t.ratio[1] \in 0..84) => HasCode(validation_results[k], "TM")
           /\ (t.raises = None /\ t.ratio[1] \in 85..100) => ~HasCode(validation_results[k], "TM")

C9_Witness ==
    \E k \in RowIndex :
        /\ calls[k].translator.raises = None
        /\ calls[k].translator.ratio = Some(84)
        /\ HasCode(validation_results[k], "TM")

\* the lexicon yields exactly one distinct non-empty gender, other than asserted
OneGenderDiffers(k) ==
    /\ calls[k].lexicon # None
    /\ \E g \in {"m", "f"} :
         /\ unique_genders(calls[k].lexicon[1]) = {g}
         /\ validation_results[k].source_noun_gender # Some(g)

\* C10: for a noun under the specialized checker, GM iff the lexicon yields
\* exactly one distinct gender and it differs from source_noun_gender; then
\* is_gender_match is false, NNF and GNF are absent and is_ok_to_display is
\* false unless the suppression flag is set.
C10_GenderMismatch ==
    \A k \in RowIndex :
        NounUnderLexicon(k) =>
            LET r == validation_results[k]
            IN /\ HasCode(r, "GM") <=> OneGenderDiffers(k)
               /\ HasCode(r, "GM") =>
                    /\ r.is_gender_match = Some(FALSE)
                    /\ ~HasCode(r, "NNF")
                    /\ ~HasCode(r, "GNF")
                    /\ r.is_ok_to_display = r.is_ignore_translation_error

C10_Witness ==
    \E k \in RowIndex :
        /\ NounUnderLexicon(k)
        /\ OneGenderDiffers(k)
        /\ HasCode(validation_results[k], "GM")
        /\ ~validation_results[k].is_ignore_translation_error
        /\ ~validation_results[k].is_ok_to_display

\* the number of records a run is to process: min(L, N) under a limit L >= 1,
\* N without a limit
ExpectedRows ==
    IF word_limit # None /\ word_limit[1] < Len(language_df)
    THEN word_limit[1] ELSE Len(language_df)

\* row k of a list of report rows carries record k of the record set
FromRecord(rows, k) ==
    \A c \in DOMAIN LanguageDataSchema : rows[k][c] = language_df[k][c]

\* C11: under a limit L >= 1 on N records verify checks exactly the first
\* min(L, N) records in record-set order and stops there, and the report it
\* persists has exactly min(L, N) rows; without a limit it processes all N.
C11_LimitBoundsTheRun ==
    (word_limit = None \/ word_limit[1] >= 1) =>
        /\ Len(calls) <= ExpectedRows
        /\ \A k \in RowIndex : FromRecord(validation_results, k)
        /\ vpc \in {"save", "done"} =>
             /\ Len(validation_results) = ExpectedRows
             /\ Len(calls) = ExpectedRows
        /\ report_file # None =>
             /\ Len(report_file[1]) = ExpectedRows
             /\ \A k \in 1..Len(report_file[1]) : FromRecord(report_file[1], k)

C11_Witness ==
    /\ word_limit = Some(1)
    /\ Len(language_df) = 2
    /\ report_file # None
    /\ Len(report_file[1]) = 1
    /\ Len(calls) = 1

\* C12: the count verify prints at the end of a run equals the number of
\* report rows whose is_needs_review is true.
C12_CountIsNeedsReview ==
    printed # None =>
        printed[1].items_to_review
            = Cardinality({ k \in 1..Len(report_file[1]) :
                              report_file[1][k].is_needs_review })

\* C13: in the persisted report every row with is_needs_review true precedes
\* every row with is_needs_review false.
C13_ReportSortedByNeedsReview ==
    report_file # None =>
        \A i, j \in 1..Len(report_file[1]) :
            (i < j /\ report_file[1][j].is_needs_review)
                => report_file[1][i].is_needs_review

----------------------------------------------------------------------------
(* Properties of the parser and the reconciler *)

\* the corpus the run in progress (or the last run) read
CorpusRead == files0[words_csv][1]

\* a run has read the corpus
HasRun == ipc # "idle" /\ files0[words_csv] # None

\* the run ended in the ValueError with this message
RaisedValueError(msg) ==
    /\ ipc = "error"
    /\ run.error # None
    /\ run.error[1][1] = "ValueError"
    /\ run.error[1][2] = msg

IsCommentLine(line) == StartsWith(line, <<"#">>) \/ \A i \in 1..Len(line) : IsSpace(line[i])

IsHeaderLine(line) == StartsWith(line, <<">">>)

IsEntryLine(line) == ~IsCommentLine(line) /\ ~IsHeaderLine(line)

\* the positions of ': ' in a line, trailing whitespace not counted
SepPositions(line) ==
    LET t == RStrip(line)
    IN { i \in 1..(Len(t) - 1) : t[i] = ":" /\ t[i + 1] = " " }

\* the entry line has nothing before, or nothing after, its first ': '
HasEmptySide(line) ==
    \/ SepPositions(line) = {}
    \/ 1 \in SepPositions(line)

\* C14: when an entry line has an empty source or target side, parsing fails
\* with a malformed-entry error whose line number is the 1-based position of
\* that line in the corpus file.
C14_MalformedEntryLineNumber ==
    RaisedValueError("unexpected empty source or target value") =>
        LET n == run.error[1][3]
        IN /\ n \in 1..Len(CorpusRead)
           /\ IsEntryLine(CorpusRead[n])
           /\ HasEmptySide(CorpusRead[n])

StructuralErrors ==
    { "no header found in file!", "header already set",
      "unexpected empty source or target value", "invalid source phrase" }

EndedInStructuralError ==
    \E msg \in StructuralErrors : RaisedValueError(msg)

\* C15: an ingest run that ends with a structural error leaves the corpus
\* file unchanged and creates no archive, no temporary file, no duplicates-log
\* entry and no output record-set file.
C15_StructuralErrorChangesNoFile ==
    [][EndedInStructuralError' =>
          /\ files' = files
          /\ files' = files0'
          /\ out_file' = out_file]_vars

C15_Witness ==
    /\ RaisedValueError("invalid source phrase")
    /\ Len(CorpusRead) > 1
    /\ files = files0

HeaderCount(lines) ==
    Cardinality({ i \in 1..Len(lines) : IsHeaderLine(lines[i]) })

\* every entry line of the corpus is one the parser accepts
EntriesWellFormed(lines) ==
    \A i \in 1..Len(lines) :
        IsEntryLine(lines[i]) =>
            /\ ~HasEmptySide(lines[i])
            /\ \A j \in 1..Len(lines[i]) : lines[i][j] \notin {"(", ")"}

\* C16: parsing succeeds only for a corpus with exactly one line starting
\* with '>'; it fails with the missing-header error iff there is no such line
\* and with the duplicate-header error when a second one is met, whatever the
\* first header line holds (corpora whose entry lines are all well-formed).
C16_ExactlyOneHeader ==
    (HasRun /\ EntriesWellFormed(CorpusRead)) =>
        /\ (ipc # "error" => HeaderCount(CorpusRead) = 1)
        /\ RaisedValueError("no header found in file!") <=> HeaderCount(CorpusRead) = 0
        /\ HeaderCount(CorpusRead) >= 2 => RaisedValueError("header already set")

\* positions (not the first) where a gender marker (m) or (f) starts
MarkerPositions(phrase) ==
    { j \in 2..(Len(phrase) - 2) :
        /\ phrase[j] = "("
        /\ phrase[j + 1] \in {"m", "f"}
        /\ phrase[j + 2] = ")" }

\* the records the parser produced in the run
ParsedRecords == run.df_sorted

\* C17: is_source_noun is true iff the source phrase is non-empty leading text
\* followed by the marker (m) or (f); then source_noun is that leading text
\* without trailing whitespace and is non-empty and source_noun_gender is the
\* marker letter; otherwise both are absent.
C17_NounFields ==
    \A k \in 1..Len(ParsedRecords) :
        LET r == ParsedRecords[k]
            markers == MarkerPositions(r.source_phrase)
        IN /\ r.is_source_noun <=> markers # {}
           /\ r.is_source_noun =>
                LET j == CHOOSE x \in markers : \A y \in markers : x <= y
                    leading == RStrip(SubSeq(r.source_phrase, 1, j - 1))
                IN /\ leading # <<>>
                   /\ r.source_noun = Some(leading)
                   /\ r.source_noun_gender = Some(r.source_phrase[j + 1])
           /\ ~r.is_source_noun =>
                /\ r.source_noun = None
                /\ r.source_noun_gender = None

\* the text of s before its first '#': the longest prefix without one
BeforeFirstHash(s) ==
    SubSeq(s, 1, Cardinality({ i \in 1..Len(s) : \A j \in 1..i : s[j] # "#" }))

\* C18: is_ignore_translation_error is true iff the original target phrase
\* ends exactly with '# ignore translation error', wherever its first '#' is;
\* the raw short form (the input of the cleaning step) is the text before the
\* first '#', trimmed, or the whole phrase when it has no '#'.
C18_SuppressionFlagAndRawShort ==
    \A k \in 1..Len(ParsedRecords) :
        LET r == ParsedRecords[k]
            t == r.target_phrase
            n == Len(SPECIAL_COMMENT)
            raw == IF \E i \in 1..Len(t) : t[i] = "#"
                   THEN Strip(BeforeFirstHash(t)) ELSE t
        IN /\ r.is_ignore_translation_error <=>
                (Len(t) >= n /\ \A i \in 1..n : t[Len(t) - n + i] = SPECIAL_COMMENT[i])
           /\ r.target_phrase_short = clean(raw)

C18_Witness ==
    \E k \in 1..Len(ParsedRecords) :
        LET t == ParsedRecords[k].target_phrase
        IN /\ ParsedRecords[k].is_ignore_translation_error
           /\ Find(t, <<"#">>) # Find(t, SPECIAL_COMMENT)
           /\ ParsedRecords[k].target_phrase_short = <<"x">>

\* s holds a bracket group: a '(' with a later ')' and no bracket in between
HasBracketGroup(s) ==
    \E i, j \in 1..Len(s) :
        /\ i < j
        /\ s[i] = "("
        /\ s[j] = ")"
        /\ \A m \in (i + 1)..(j - 1) : s[m] \notin {"(", ")"}

HasEg(s) ==
    \E i \in 1..(Len(s) - 2) : s[i] = "e" /\ s[i + 1] = "." /\ s[i + 2] = "g"

\* C19: target_phrase_short holds no balanced parenthesized substring, however
\* nested or adjacent the groups were, no 'e.g', and no leading or trailing
\* whitespace.
C19_ShortFormIsClean ==
    \A k \in 1..Len(ParsedRecords) :
        LET short == ParsedRecords[k].target_phrase_short
        IN /\ ~HasBracketGroup(short)
           /\ ~HasEg(short)
           /\ short # <<>> => (~IsSpace(short[1]) /\ ~IsSpace(short[Len(short)]))

C19_Witness ==
    \E k \in 1..Len(ParsedRecords) :
        /\ ParsedRecords[k].target_phrase
             = <<"x", " ", "(", "y", " ", "(", "z", ")", ")", " ", "w">>
        /\ ParsedRecords[k].target_phrase_short = <<"x", " ", " ", "w">>

\* the record set the run parsed from the corpus, in file order
ParsedInFileOrder == parse_corpus(CorpusRead).df

\* the run parsed a record set without duplicate records that is already in
\* ascending source_phrase_no_diacritic order
ParsedSortedAndDistinct ==
    /\ HasRun
    /\ LET parsed == parse_corpus(CorpusRead)
           df == parsed.df
       IN /\ parsed.error = None
          /\ \A k \in 1..(Len(df) - 1) :
               StrLeq(df[k].source_phrase_no_diacritic,
                      df[k + 1].source_phrase_no_diacritic)
          /\ \A i, j \in 1..Len(df) : i # j => df[i] # df[j]

\* C20: when the parsed record set has no duplicate records and is already
\* sorted, the reconciler writes nothing: the corpus file is unchanged and no
\* temporary file, archive or duplicates log is created or modified.
C20_NoRewriteWhenSortedAndDistinct ==
    \/ /\ files = files0
       /\ ipc \notin {"dups", "write_tmp", "archive", "touch", "replace"}
    \/ ~ParsedSortedAndDistinct

C20_Witness ==
    /\ ParsedSortedAndDistinct
    /\ Len(ParsedInFileOrder) = 2
    /\ ParsedInFileOrder[1].source_phrase_no_diacritic
         = ParsedInFileOrder[2].source_phrase_no_diacritic
    /\ ipc = "done"
    /\ files = files0

----------------------------------------------------------------------------
(* Properties of the verification engine, continued *)

C27_FailedTranslationClassified ==
    \A k \in FailedCalls :
        /\ k \in RowIndex
        /\ HasCode(validation_results[k], "TE")
        /\ ~HasCode(validation_results[k], "TM")

NounUnderGeneric(k) ==
    /\ validation_results[k].is_source_noun
    /\ translation_checker = "GenericTranslationChecker"

GenderCodes == {"NNF", "GNF", "GM"}

\* C30: under the generic checker every noun record needs review with NNF in
\* review_reason, whatever the translation outcome; under either checker a
\* record that is not a noun never carries NNF, GNF or GM.
C30_GenericNounsAreNNF ==
    \A k \in RowIndex :
        LET r == validation_results[k]
        IN /\ NounUnderGeneric(k) =>
                /\ r.is_needs_review
                /\ HasCode(r, "NNF")
           /\ ~r.is_source_noun =>
                \A code \in GenderCodes : ~HasCode(r, code)

C30_Witness ==
    \E i, j \in RowIndex :
        /\ NounUnderGeneric(i)
        /\ calls[i].translator.raises = None
        /\ calls[i].translator.ratio = Some(100)
        /\ Codes(validation_results[i].review_reason) = <<"NNF">>
        /\ ~validation_results[j].is_source_noun
        /\ validation_results[j].is_needs_review

\* the run parsed the corpus without error
ParsedOk == HasRun /\ parse_corpus(CorpusRead).error = None

\* how many records of the frame repeat an earlier one
RepeatCount(df) ==
    Cardinality({ k \in 1..Len(df) : \E j \in 1..(k - 1) : df[j] = df[k] })

\* how often the (source, target) pair occurs among the records
Occurrences(df, pair) ==
    Cardinality({ k \in 1..Len(df) :
                    df[k].source_phrase = pair[1] /\ df[k].target_phrase = pair[2] })

PairsOf(df) == { <<df[k].source_phrase, df[k].target_phrase>> : k \in 1..Len(df) }

\* the run is past the step that logs and drops the duplicates
PastLogging == ipc \in {"write_tmp", "archive", "touch", "replace", "validate", "save", "done"}

LogContent(fs) == IF fs[words_dups_csv] = None THEN <<>> ELSE fs[words_dups_csv][1]

\* what the current run has added to the duplicates log
LogAdded ==
    SubSeq(LogContent(files), Len(LogContent(files0)) + 1, Len(LogContent(files)))

RECURSIVE SumOfCounts(_)
SumOfCounts(rows) ==
    IF rows = <<>> THEN 0 ELSE Head(rows)[3] + SumOfCounts(Tail(rows))

\* C21: with N parsed records of which K repeat an earlier record, the
\* reconciled record set has N - K records, every repeated pair is in the
\* run's duplicates-log entry exactly once, with the number of its repeats,
\* and the logged counts sum to K.
C21_DuplicatesDroppedAndLogged ==
    (PastLogging /\ ParsedOk) =>
        LET parsed == ParsedInFileOrder
            N == Len(parsed)
            K == RepeatCount(parsed)
            rows == Tail(LogAdded)
        IN /\ Len(run.df_sorted) = N - K
           /\ K > 0 =>
                /\ LogAdded # <<>>
                /\ \A i, j \in 1..Len(rows) :
                     i # j => <<rows[i][1], rows[i][2]>> # <<rows[j][1], rows[j][2]>>
                /\ { <<rows[i][1], rows[i][2]>> : i \in 1..Len(rows) }
                     = { pair \in PairsOf(parsed) : Occurrences(parsed, pair) > 1 }
                /\ \A i \in 1..Len(rows) :
                     rows[i][3] = Occurrences(parsed, <<rows[i][1], rows[i][2]>>) - 1
                /\ SumOfCounts(rows) = K

\* a run over four records, two pairs each given twice, is past the logging
C21_Witness ==
    /\ PastLogging
    /\ ParsedOk
    /\ Len(LogAdded) = 3
    /\ LET parsed == ParsedInFileOrder
       IN Len(parsed) = 4 /\ RepeatCount(parsed) = 2

\* the reconciler has returned its record set to main()
Reconciled == ipc \in {"validate", "save", "done"} /\ ParsedOk

\* C22: the record set the reconciler returns, which is the one persisted, is
\* in ascending source_phrase_no_diacritic order, holds no two records with
\* the same (source, target) pair, and holds every distinct parsed pair.
C22_ReconciledSortedDistinctComplete ==
    Reconciled =>
        /\ \A k \in 1..(Len(run.df_sorted) - 1) :
             StrLeq(run.df_sorted[k].source_phrase_no_diacritic,
                    run.df_sorted[k + 1].source_phrase_no_diacritic)
        /\ \A i, j \in 1..Len(run.df_sorted) :
             i # j => pair_of(run.df_sorted[i]) # pair_of(run.df_sorted[j])
        /\ { pair_of(run.df_sorted[k]) : k \in 1..Len(run.df_sorted) }
             = PairsOf(ParsedInFileOrder)
        /\ ipc = "done" => out_file = Some(run.df_sorted)

\* a corpus given out of order and with repeats has been reconciled and saved
C22_Witness ==
    /\ Reconciled
    /\ ipc = "done"
    /\ Len(run.df_sorted) = 2
    /\ LET parsed == ParsedInFileOrder
       IN /\ RepeatCount(parsed) > 0
          /\ \E k \in 1..(Len(parsed) - 1) :
               ~StrLeq(parsed[k].source_phrase_no_diacritic,
                       parsed[k + 1].source_phrase_no_diacritic)

IsPrefix(s, t) == Len(s) <= Len(t) /\ SubSeq(t, 1, Len(s)) = s

\* the banner line has four fields, a duplicate-pair line three
IsBanner(row) == Len(row) = 4

\* C23: the duplicates log only grows by appending: every step keeps the
\* earlier content as a prefix, and the logging step of a run that found
\* duplicates adds exactly one banner followed by its grouped pairs.
C23_LogAppendOnly ==
    [][/\ IsPrefix(LogContent(files), LogContent(files'))
       /\ (ipc = "dups" /\ ipc' = "write_tmp") =>
            LET added == SubSeq(LogContent(files'), Len(LogContent(files)) + 1,
                                Len(LogContent(files')))
            IN /\ Len(added) >= 2
               /\ added[1] = dups_banner(run.timestamp)
               /\ \A i \in 2..Len(added) : ~IsBanner(added[i])]_vars

\* a run has appended its entry behind the entry an earlier run left
C23_Witness ==
    /\ PastLogging
    /\ LogContent(files0) # <<>>
    /\ Len(LogContent(files)) > Len(LogContent(files0))
    /\ IsPrefix(LogContent(files0), LogContent(files))

\* C25: a second ingest run started right after a successful first run writes
\* no file (no corpus rewrite, no archive, no duplicates-log entry) and
\* produces the record set of the first run.
C25_SecondRunIdempotent ==
    [][(ipc = "done" /\ ipc' # "done") =>
          /\ ipc' = "validate"
          /\ files' = files
          /\ run'.df_sorted = run.df_sorted]_vars

\* the text of an entry line before its first ': '
SourceSide(line) ==
    LET t == RStrip(line)
        first == CHOOSE i \in SepPositions(line) : \A j \in SepPositions(line) : i <= j
    IN SubSeq(t, 1, first - 1)

\* the innermost parenthesized groups of a phrase, as (open, close) positions
BracketGroups(phrase) ==
    { g \in (1..Len(phrase)) \X (1..Len(phrase)) :
        /\ g[1] < g[2]
        /\ phrase[g[1]] = "("
        /\ phrase[g[2]] = ")"
        /\ \A k \in (g[1] + 1)..(g[2] - 1) : phrase[k] \notin {"(", ")"} }

GroupContent(phrase, g) == SubSeq(phrase, g[1] + 1, g[2] - 1)

HasForeignGroup(phrase) ==
    \E g \in BracketGroups(phrase) : GroupContent(phrase, g) \notin { <<"m">>, <<"f">> }

\* the well-formed entry lines of the corpus
SoundEntries(lines) ==
    { i \in 1..Len(lines) : IsEntryLine(lines[i]) /\ ~HasEmptySide(lines[i]) }

\* C28: a corpus with an entry whose source phrase holds a parenthesized
\* group other than (m) and (f), wherever the group sits, is rejected; a
\* corpus whose entries hold no such group is never rejected with the
\* invalid-gender-marker error.
C28_ForeignGroupRejected ==
    HasRun =>
        /\ (\E i \in SoundEntries(CorpusRead) :
                HasForeignGroup(SourceSide(CorpusRead[i])))
             => EndedInStructuralError
        /\ (/\ \A i \in 1..Len(CorpusRead) :
                 IsEntryLine(CorpusRead[i]) => i \in SoundEntries(CorpusRead)
            /\ \A i \in SoundEntries(CorpusRead) :
                 LET phrase == SourceSide(CorpusRead[i])
                 IN /\ ~HasForeignGroup(phrase)
                    /\ Count(phrase, "(") = Cardinality(BracketGroups(phrase))
                    /\ Count(phrase, ")") = Cardinality(BracketGroups(phrase)))
             => ~RaisedValueError("invalid source phrase")

\* the run is over the reconciler and has replaced the corpus file
Rewrote ==
    /\ ParsedOk
    /\ ipc \in {"validate", "save", "done"}
    /\ files[words_csv] # files0[words_csv]

\* every comment or blank line before the header line in effect, then that line
ExpectedPreamble(lines) ==
    LET headers == { i \in 1..Len(lines) : IsHeaderLine(lines[i]) }
        h == CHOOSE i \in headers : \A j \in headers : j <= i
    IN SelectSeq(SubSeq(lines, 1, h - 1), IsCommentLine) \o << lines[h] >>

RecordLines(df) ==
    [k \in 1..Len(df) |-> df[k].source_phrase \o <<":", " ">> \o df[k].target_phrase]

\* C29: after a run that rewrote the corpus, the corpus file is the preamble
\* (the comment and blank lines before the header, then the header line)
\* followed by one 'source: target' line per returned record, in order, and
\* the archive of the run holds the prior corpus content.
C29_RewrittenCorpusAndArchive ==
    Rewrote =>
        /\ files[words_csv]
             = Some(ExpectedPreamble(CorpusRead) \o RecordLines(run.df_sorted))
        /\ files[words_save_csv(run.timestamp)] = files0[words_csv]

\* the schema the table was validated against
ValidatedAgainst ==
    IF schema_raised.schema = "language" THEN LanguageDataSchema
    ELSE ValidationReportDataSchema

\* the cell value is one the declared type admits
Compatible(value, declared) ==
    CASE declared = "str" -> value \in StrValues
      [] declared = "bool" -> value \in BoolValues
      [] declared = "Optional[bool]" -> value \in BoolValues \cup {NoneValue}
      [] declared = "int" -> value \in IntValues
      [] declared = "Optional[Literal['m', 'f']]" -> value \in {"'m'", "'f'", NoneValue}

\* the columns of the stored table that hold a value their declared type excludes
IncompatibleColumns(schema) ==
    { c \in DOMAIN schema :
        \E k \in 1..Len(stored.cells[c]) : ~Compatible(stored.cells[c][k], schema[c]) }

Raised(kind) == schema_raised.error # None /\ schema_raised.error[1][1] = kind

\* C24: validation fails with the field-set error iff the table's set of
\* column names differs from the schema's, whatever the column order and
\* before any type is looked at; otherwise it fails with the field-type
\* error, naming an offending field, iff some field holds a value that is
\* incompatible with its declared type; otherwise it succeeds.
C24_SchemaValidationOutcome ==
    schema_raised # NotValidated =>
        LET schema == ValidatedAgainst
            present == { stored.columns[k] : k \in 1..Len(stored.columns) }
        IN /\ Raised("ValueError") <=> present # DOMAIN schema
           /\ present = DOMAIN schema =>
                /\ Raised("TypeError") <=> IncompatibleColumns(schema) # {}
                /\ Raised("TypeError") =>
                     schema_raised.error[1][2] \in IncompatibleColumns(schema)
                /\ IncompatibleColumns(schema) = {} => schema_raised.error = None

====
